---------------------------- MODULE Spec2Model ----------------------------
(***************************************************************************)
(* A model of filamat's GLSLPostProcessor                                  *)
(* (libs/filamat/src/GLSLPostProcessor.cpp).                               *)
(*                                                                         *)
(* Text is a sequence of one-character strings, so that the text utilities *)
(* (shrinkString, the consume* scanners, replaceAll, minifyStructFields)   *)
(* are computed character by character as the C++ computes them.  Indices  *)
(* are zero-based as in the source; npos is -1.                            *)
(*                                                                         *)
(* Three specifications share the module:                                  *)
(*   Spec      the orchestrator GLSLPostProcessor::process, one call at a  *)
(*             time on one instance, the external compilers being          *)
(*             nondeterministic;                                           *)
(*   MinSpec   minifyStructFields applied to bounded source texts;         *)
(*   ScanSpec  the scan loop of minifyStructFields fed line by line, with  *)
(*             struct bodies of up to MaxFields fields.                    *)
(***************************************************************************)
EXTENDS Integers, Sequences, FiniteSets, TLC

VARIABLES
    \* ---- GLSLPostProcessor instance (Spec)
    mOptimization,      \* construction-time optimization level
    mGlslOutput,        \* members written by process(): which caller object
    mSpirvOutput,       \*   each one points to, or "null"
    mMslOutput,
    mShLang,            \* members written by process(): stage of the shader
    mLangVersion,       \*   and glslang version of its shader model
    pc,                 \* position of the process() call in flight
    call,               \* arguments of the call in flight
    outputGlsl,         \* caller-owned output objects (contents)
    outputSpirv,
    outputMsl,
    local,              \* locals of the call in flight (ok flags, glsl, spirv)
    ret,                \* return value of the finished call
    log,                \* what the call did so far, in order
    \* ---- minifyStructFields on a text (MinSpec)
    source,             \* the argument
    minified,           \* outcome of the call
    \* ---- the scan loop fed line by line (ScanSpec)
    scan,               \* OUTSIDE/STRUCT_OPEN/STRUCT_DEFN state and tables
    fed                 \* the codelines fed so far (kinds)

vars == <<mOptimization, mGlslOutput, mSpirvOutput, mMslOutput, mShLang,
          mLangVersion, pc, call,
          outputGlsl, outputSpirv, outputMsl, local, ret, log,
          source, minified, scan, fed>>

procVars == <<mOptimization, mGlslOutput, mSpirvOutput, mMslOutput, mShLang,
          mLangVersion, pc, call,
              outputGlsl, outputSpirv, outputMsl, local, ret, log>>
minVars == <<source, minified>>
scanVars == <<scan, fed>>

-----------------------------------------------------------------------------
(* Characters and std::string primitives                                   *)

npos == -1

NL == "\n"
NUL == "\\0"

Lower == <<"a","b","c","d","e","f","g","h","i","j","k","l","m",
           "n","o","p","q","r","s","t","u","v","w","x","y","z">>
LowerSet == {Lower[i] : i \in 1..Len(Lower)}
UpperSet == {"A","B","C","D","E","F","G","H","I","J","K","L","M",
             "N","O","P","Q","R","S","T","U","V","W","X","Y","Z"}
DigitSet == {"0","1","2","3","4","5","6","7","8","9"}

\* c + 1 for a lowercase letter below 'z'
SuccChar(c) ==
    LET i == CHOOSE k \in 1..Len(Lower) : Lower[k] = c
    IN  Lower[i + 1]

\* s[i], zero-based
At(s, i) == s[i + 1]

\* s.substr(pos, n) with n clamped to the end of s
Substr(s, pos, n) ==
    LET last == IF pos + n > Len(s) THEN Len(s) ELSE pos + n
    IN  SubSeq(s, pos + 1, last)

\* s.find(sub, pos)
find(s, sub, pos) ==
    LET hits == {p \in pos..(Len(s) - Len(sub)) :
                    SubSeq(s, p + 1, p + Len(sub)) = sub}
    IN  IF hits = {} THEN npos
        ELSE CHOOSE p \in hits : \A q \in hits : p <= q

\* s.find_first_not_of(" \t", pos)
RECURSIVE findFirstNotOfBlank(_, _)
findFirstNotOfBlank(s, pos) ==
    IF pos >= Len(s) THEN npos
    ELSE IF At(s, pos) \notin {" ", "\t"} THEN pos
    ELSE findFirstNotOfBlank(s, pos + 1)

-----------------------------------------------------------------------------
(* shrinkString                                                            *)

\* while (s[cur] == '\n') cur++;   s[s.length()] is '\0' for a std::string
RECURSIVE skipNewlines(_, _)
skipNewlines(s, cur) ==
    IF cur < Len(s) /\ At(s, cur) = NL THEN skipNewlines(s, cur + 1) ELSE cur

\* The inner loop "while (s[cur] != '\n')" runs off the end of s when no
\* newline is left: s[s.length()] is '\0', every later read is out of range.
shrinkReadsPastEnd(s) == Len(s) > 0 /\ s[Len(s)] # NL

\* One turn of the outer loop.  When the inner loop runs off the end, len is
\* at least the rest of s and append(s, newPos, n) clamps n to the end of s.
RECURSIVE shrinkFrom(_, _, _)
shrinkFrom(s, cur, r) ==
    IF cur >= Len(s) THEN r
    ELSE LET pos == cur
             nl == find(s, <<NL>>, cur)
             eol == IF nl = npos THEN Len(s) ELSE nl
             len == eol - pos
             fn == findFirstNotOfBlank(s, pos)
             newPos == IF fn = npos THEN pos ELSE fn
         IN  shrinkFrom(s, skipNewlines(s, eol),
                        r \o Substr(s, newPos, len - (newPos - pos)) \o <<NL>>)

shrinkString(s) == shrinkFrom(s, 0, <<>>)

-----------------------------------------------------------------------------
(* The line scanners                                                       *)

isIdCharNondigit(c) == c = "_" \/ c \in LowerSet \/ c \in UpperSet

isIdChar(c) == isIdCharNondigit(c) \/ c \in DigitSet

RECURSIVE idEnd(_, _)
idEnd(codeline, index) ==
    IF index < Len(codeline) /\ isIdChar(At(codeline, index))
    THEN idEnd(codeline, index + 1)
    ELSE index

\* [ok, index, id]: index and id are the outputs *pindex and *id
consumeIdentifier(codeline, pindex) ==
    IF pindex >= Len(codeline)
    THEN [ok |-> FALSE, index |-> pindex, id |-> <<>>]
    ELSE IF ~isIdCharNondigit(At(codeline, pindex))
    THEN [ok |-> FALSE, index |-> pindex, id |-> <<>>]
    ELSE LET e == idEnd(codeline, pindex + 1)
         IN  [ok |-> TRUE, index |-> e, id |-> SubSeq(codeline, pindex + 1, e)]

\* The string is searched for from *pindex on, not matched at *pindex.
consumeString(codeline, pindex, s) ==
    LET index == find(codeline, s, pindex)
    IN  IF index = npos
        THEN [ok |-> FALSE, index |-> pindex]
        ELSE [ok |-> TRUE, index |-> index + Len(s)]

RECURSIVE arrayEnd(_, _)
arrayEnd(codeline, index) ==
    IF index < Len(codeline) /\ At(codeline, index) # "]"
    THEN arrayEnd(codeline, index + 1)
    ELSE index

\* the new *pindex
consumeArraySize(codeline, pindex) ==
    IF pindex >= Len(codeline) THEN pindex
    ELSE IF At(codeline, pindex) # "[" THEN pindex
    ELSE LET index == arrayEnd(codeline, pindex + 1)
         IN  IF index = Len(codeline) THEN index ELSE index + 1

RECURSIVE replaceFrom(_, _, _, _)
replaceFrom(result, from, to, n) ==
    LET m == find(result, from, n)
    IN  IF m = npos THEN result
        ELSE replaceFrom(SubSeq(result, 1, m) \o to
                            \o SubSeq(result, m + Len(from) + 1, Len(result)),
                         from, to, m + Len(to))

replaceAll(result, from, to) == replaceFrom(result, from, to, 0)


-----------------------------------------------------------------------------
(* minifyStructFields                                                      *)

UNIFORM_ == <<"u","n","i","f","o","r","m"," ">>
CLOSE_ == <<"}"," ">>

\* std::unordered_map<std::string, std::string> as a function on its keys
EmptyMap == [k \in {} |-> <<>>]

MapPut(m, k, v) == [x \in DOMAIN m \cup {k} |-> IF x = k THEN v ELSE m[x]]

\* m[k] as an rvalue: the value, the empty string when k is absent
MapGet(m, k) == IF k \in DOMAIN m THEN m[k] ELSE <<>>

\* m after "m[k]" was evaluated: operator[] inserts an absent key
MapTouch(m, k) == IF k \in DOMAIN m THEN m ELSE MapPut(m, k, <<>>)

\* Split the string into separate string views at each newline.
RECURSIVE splitFrom(_, _, _)
splitFrom(sv, first, codelines) ==
    \* the views so far lie before first, each with a character and a newline
    IF first >= Len(sv) \/ Len(codelines) > first THEN codelines
    ELSE LET second == find(sv, <<NL>>, first)
             piece == IF second = npos
                      THEN SubSeq(sv, first + 1, Len(sv))
                      ELSE SubSeq(sv, first + 1, second)
             cl == IF first # second THEN Append(codelines, piece) ELSE codelines
         IN  IF second = npos THEN cl ELSE splitFrom(sv, second + 1, cl)

\* a faulty variant: the empty views are kept
RECURSIVE splitFromKeepEmpty(_, _, _)
splitFromKeepEmpty(sv, first, codelines) ==
    IF first >= Len(sv) THEN codelines
    ELSE LET second == find(sv, <<NL>>, first)
             piece == IF second = npos
                      THEN SubSeq(sv, first + 1, Len(sv))
                      ELSE SubSeq(sv, first + 1, second)
             cl == Append(codelines, piece)
         IN  IF second = npos THEN cl ELSE splitFromKeepEmpty(sv, second + 1, cl)

splitLinesKeepEmpty(sv) == splitFromKeepEmpty(sv, 0, <<>>)

splitLines(sv) == splitFrom(sv, 0, <<>>)

\* codeline[index] of a string_view.  At index = size() the read is out of
\* range; an unchecked build reads the byte that follows the view in the
\* underlying std::string, a newline or the terminating NUL.
Peek(codeline, index) ==
    IF index < Len(codeline) THEN At(codeline, index) ELSE NUL

\* TypeIdentifier SPACE FieldIdentifier ;   [ok, typeId, fieldId, oob]
\* oob: codeline[index++] was read at index = codeline.size()
matchFieldDecl(codeline) ==
    LET no(o) == [ok |-> FALSE, typeId |-> <<>>, fieldId |-> <<>>, oob |-> o]
        c1 == consumeIdentifier(codeline, 0)
    IN  IF ~c1.ok THEN no(FALSE)
        ELSE IF Peek(codeline, c1.index) # " "
        THEN no(c1.index >= Len(codeline))
        ELSE LET c2 == consumeIdentifier(codeline, c1.index + 1)
             IN  IF ~c2.ok THEN no(FALSE)
                 ELSE IF Peek(codeline, c2.index) # ";"
                 THEN no(c2.index >= Len(codeline))
                 ELSE IF c2.index + 1 # Len(codeline) THEN no(FALSE)
                 ELSE [ok |-> TRUE, typeId |-> c1.id, fieldId |-> c2.id,
                       oob |-> FALSE]

\* "uniform " IgnoreableIdentifier, and nothing after it
matchUniform(codeline) ==
    LET c1 == consumeString(codeline, 0, UNIFORM_)
        c2 == consumeIdentifier(codeline, c1.index)
    IN  IF ~c1.ok \/ ~c2.ok THEN [ok |-> FALSE, typeId |-> <<>>]
        ELSE [ok |-> c2.index = Len(codeline), typeId |-> c2.id]

\* "} " StructIdentifier ";"   [found, ok, structName]
\* found: the line holds "} " (so it is not tried as a field declaration)
matchClose(codeline) ==
    LET c1 == consumeString(codeline, 0, CLOSE_)
        c2 == consumeIdentifier(codeline, c1.index)
        c3 == consumeString(codeline, c2.index, <<";">>)
    IN  IF ~c1.ok THEN [found |-> FALSE, ok |-> FALSE, structName |-> <<>>]
        ELSE IF ~c2.ok THEN [found |-> TRUE, ok |-> FALSE, structName |-> <<>>]
        ELSE IF ~c3.ok \/ c3.index # Len(codeline)
        THEN [found |-> TRUE, ok |-> FALSE, structName |-> <<>>]
        ELSE [found |-> TRUE, ok |-> TRUE, structName |-> c2.id]

\* a faulty variant: after 'z' the generator starts again at "a"
wrapGeneratedFieldName(g) ==
    IF g[1] = "z" THEN <<"a">> ELSE [g EXCEPT ![1] = SuccChar(g[1])]

\* a faulty variant: after 'z' the generator goes on with "aa"
doubledGeneratedFieldName(g) ==
    IF g[1] = "z" THEN <<"a", "a">> ELSE [g EXCEPT ![1] = SuccChar(g[1])]

\* the step of the short-name generator at the end of the loop body
nextGeneratedFieldName(g) ==
    IF g[1] = "z" THEN <<"a">> \o g ELSE [g EXCEPT ![1] = SuccChar(g[1])]

\* generatedFieldName after n more turns of the loop over the fields
RECURSIVE generatedAfter(_, _)
generatedAfter(g, n) ==
    IF n = 0 THEN g
    ELSE IF n = 1 THEN nextGeneratedFieldName(g)
    ELSE LET half == generatedAfter(g, n \div 2)
         IN  IF half = <<>> THEN half
             ELSE generatedAfter(half, n - n \div 2)

\* for (auto field : fields) { fieldMapping[key] = val; ... }
\* From turn i on, with generatedFieldName at turn i; where a field comes
\* twice, the entry of its last turn stays.
assignFields(fieldMapping, structNameS, fields, i, generatedFieldName) ==
    LET turns == i..Len(fields)
        key(j) == structNameS \o <<".">> \o fields[j]
        keys == {key(j) : j \in turns}
        lastTurn(x) == LET js == {j \in turns : key(j) = x}
                       IN  CHOOSE j \in js : \A m \in js : m <= j
        val(j) == structNameS \o <<".">>
                      \o generatedAfter(generatedFieldName, j - i)
    IN  [x \in DOMAIN fieldMapping \cup keys |->
            IF x \in keys THEN val(lastTurn(x)) ELSE fieldMapping[x]]

\* enum { OUTSIDE, STRUCT_OPEN, STRUCT_DEFN }
ScanStates == {"OUTSIDE", "STRUCT_OPEN", "STRUCT_DEFN"}

\* The state of the scan loop before its first line.
ScanInit ==
    [state |-> "OUTSIDE", currentStruct |-> <<>>, fields |-> <<>>,
     fieldMapping |-> EmptyMap, currentStructToName |-> EmptyMap, oob |-> FALSE]

\* the "} StructIdentifier ;" branch once matched
closeStruct(st, structNameS) ==
    [st EXCEPT !.currentStructToName =
                   MapPut(st.currentStructToName, st.currentStruct, structNameS),
               !.fieldMapping =
                   assignFields(st.fieldMapping, structNameS, st.fields, 1, <<"a">>),
               !.fields = <<>>,
               !.state = "OUTSIDE"]

\* One turn of the loop that builds the remapping table.
scanLine(st, codeline) ==
    CASE st.state = "OUTSIDE" ->
            LET u == matchUniform(codeline)
            IN  IF u.ok
                THEN [st EXCEPT !.currentStruct = u.typeId, !.state = "STRUCT_OPEN"]
                ELSE st
      [] st.state = "STRUCT_OPEN" ->
            [st EXCEPT !.state = IF codeline[1] = "{" /\ Len(codeline) = 1
                                 THEN "STRUCT_DEFN" ELSE "OUTSIDE"]
      [] st.state = "STRUCT_DEFN" ->
            LET c == matchClose(codeline)
                f == matchFieldDecl(codeline)
            IN  IF c.found
                THEN IF c.ok THEN closeStruct(st, c.structName) ELSE st
                ELSE IF f.ok
                THEN [st EXCEPT !.fields = Append(st.fields, f.fieldId)]
                ELSE [st EXCEPT !.oob = st.oob \/ f.oob]

RECURSIVE scanFrom(_, _, _)
scanFrom(st, codelines, i) ==
    IF i > Len(codelines) \/ st.state \notin ScanStates THEN st
    ELSE scanFrom(scanLine(st, codelines[i]), codelines, i + 1)

scanPass(codelines) == scanFrom(ScanInit, codelines, 1)

\* for (const auto& key : fieldMapping) replaceAll(newline, key.first, key.second);
\* order lists the keys as the unordered_map iterates over them.
RECURSIVE applyMapping(_, _, _, _)
applyMapping(newline, fieldMapping, order, i) ==
    IF i > Len(order) THEN newline
    ELSE IF order[i] \in DOMAIN fieldMapping
    THEN applyMapping(replaceAll(newline, order[i], fieldMapping[order[i]]),
                      fieldMapping, order, i + 1)
    ELSE applyMapping(newline, fieldMapping, order, i + 1)

\* a faulty variant: the short name is put in front of the field name
rewriteDeclPrefixed(st, f) ==
    LET name == MapGet(st.currentStructToName, st.currentStruct)
        key == name \o <<".">> \o f.fieldId
        val == MapGet(st.fieldMapping, key)
        dot == find(val, <<".">>, 0)
        fieldName == Substr(val, dot + 1, Len(val))
    IN  [st |-> [st EXCEPT !.currentStructToName =
                               MapTouch(st.currentStructToName, st.currentStruct),
                           !.fieldMapping = MapTouch(st.fieldMapping, key)],
         newline |-> f.typeId \o <<" ">> \o fieldName \o f.fieldId \o <<";">>]

\* the rewritten field declaration, and the tables after the two operator[]
rewriteDecl(st, f) ==
    LET name == MapGet(st.currentStructToName, st.currentStruct)
        key == name \o <<".">> \o f.fieldId
        val == MapGet(st.fieldMapping, key)
        dot == find(val, <<".">>, 0)
        fieldName == Substr(val, dot + 1, Len(val))
    IN  [st |-> [st EXCEPT !.currentStructToName =
                               MapTouch(st.currentStructToName, st.currentStruct),
                           !.fieldMapping = MapTouch(st.fieldMapping, key)],
         newline |-> f.typeId \o <<" ">> \o fieldName \o <<";">>]

\* a faulty variant: in STRUCT_OPEN a line other than "{" is handed to
\* the OUTSIDE case instead of being passed over
rewriteLineFallsThrough(st, codeline, order) ==
    LET open == st.state = "STRUCT_OPEN"
        brace == codeline[1] = "{" /\ Len(codeline) = 1
        u == matchUniform(codeline)
        c == matchClose(codeline)
        f == matchFieldDecl(codeline)
    IN  IF open /\ brace
        THEN [st |-> [st EXCEPT !.state = "STRUCT_DEFN"], newline |-> codeline]
        ELSE IF open \/ st.state = "OUTSIDE"
        THEN IF u.ok
             THEN [st |-> [st EXCEPT !.currentStruct = u.typeId,
                                     !.state = "STRUCT_OPEN"],
                   newline |-> codeline]
             ELSE [st |-> [st EXCEPT !.state = "OUTSIDE"],
                   newline |-> applyMapping(codeline, st.fieldMapping, order, 1)]
        ELSE IF c.found
        THEN [st |-> IF c.ok THEN [st EXCEPT !.state = "OUTSIDE"] ELSE st,
              newline |-> codeline]
        ELSE IF f.ok THEN rewriteDecl(st, f)
        ELSE [st |-> st, newline |-> codeline]

\* One turn of the loop that applies the remapping table: [st, newline]
rewriteLine(st, codeline, order) ==
    CASE st.state = "OUTSIDE" ->
            LET u == matchUniform(codeline)
            IN  IF u.ok
                THEN [st |-> [st EXCEPT !.currentStruct = u.typeId,
                                        !.state = "STRUCT_OPEN"],
                      newline |-> codeline]
                ELSE [st |-> st,
                      newline |-> applyMapping(codeline, st.fieldMapping, order, 1)]
      [] st.state = "STRUCT_OPEN" ->
            [st |-> [st EXCEPT !.state = IF codeline[1] = "{" /\ Len(codeline) = 1
                                         THEN "STRUCT_DEFN" ELSE "OUTSIDE"],
             newline |-> codeline]
      [] st.state = "STRUCT_DEFN" ->
            LET c == matchClose(codeline)
                f == matchFieldDecl(codeline)
            IN  IF c.found
                THEN [st |-> IF c.ok THEN [st EXCEPT !.state = "OUTSIDE"] ELSE st,
                      newline |-> codeline]
                ELSE IF f.ok THEN rewriteDecl(st, f)
                ELSE [st |-> st, newline |-> codeline]

\* [st, out]: out is the sequence of the lines written to result
RECURSIVE rewriteFrom(_, _, _, _, _)
rewriteFrom(st, codelines, order, i, out) ==
    \* one line is written for each codeline read
    IF i > Len(codelines) \/ st.state \notin ScanStates \/ Len(out) # i - 1
    THEN [st |-> st, out |-> out]
    ELSE LET r == rewriteLine(st, codelines[i], order)
         IN  rewriteFrom(r.st, codelines, order, i + 1, Append(out, r.newline))

rewritePass(codelines, scanned, order) ==
    rewriteFrom([scanned EXCEPT !.state = "OUTSIDE"], codelines, order, 1, <<>>)

\* result += newline + "\n"
RECURSIVE joinLines(_, _)
joinLines(lines, i) ==
    IF i > Len(lines) THEN <<>>
    ELSE lines[i] \o <<NL>> \o joinLines(lines, i + 1)

\* the lines written to result, one for each codeline
minifyLines(src, order) ==
    LET codelines == splitLines(src)
    IN  rewritePass(codelines, scanPass(codelines), order).out

minifyStructFields(src, order) == joinLines(minifyLines(src, order), 1)

\* The keys fieldMapping holds at some point of the call: those of the scan
\* pass and those the rewrite pass inserts through operator[].
minifyKeys(src) ==
    LET codelines == splitLines(src)
    IN  DOMAIN rewritePass(codelines, scanPass(codelines), <<>>).st.fieldMapping

\* The orders in which the unordered_map may iterate over a set of keys.
Orders(keys) ==
    {o \in [1..Cardinality(keys) -> keys] :
        \A i, j \in 1..Cardinality(keys) : o[i] = o[j] => i = j}

\* A codeline[index] read out of range happens during the call.
minifyReadsPastEnd(src) == scanPass(splitLines(src)).oob

-----------------------------------------------------------------------------
(* GLSLPostProcessor::process and its helpers                              *)

Levels == {"NONE", "PREPROCESSOR", "SIZE", "PERFORMANCE"}

\* The threads that may call process() on the instance.  An output pointer
\* is Null or names the caller whose output object it points to.
Callers == {"t1", "t2"}
Null == "null"

\* Shader texts.  TextA is indented, holds a blank line and a uniform block,
\* so that shrinkString and minifyStructFields both change it.
TextA == <<"u","n","i","f","o","r","m"," ","T","\n","{","\n",
           "\t","f","l","o","a","t"," ","b",";","\n","}"," ","I",";","\n",
           "\n"," ","x","=","I",".","b",";","\n">>
TextB == <<"v","o","i","d"," ","m","a","i","n","(",")","{","}","\n">>
\* what a caller may have left in *outputGlsl: no trailing newline
StaleText == <<" "," ","o","l","d">>
MslA == <<"\t","m","(",")",";","\n">>
MslB == <<"k","(",")",";","\n">>

InputShaders == {TextA, TextB}
\* what TShader::preprocess and CompilerGLSL::compile may return
GeneratedTexts == {TextA, TextB}
\* what CompilerMSL::compile may return
MslTexts == {MslA, MslB}

\* SpirvBlob values: an empty or stale caller blob, or the lowering of a
\* text, with what the optimizer and the remapper did to it.
Blob(kind, src, opt, dce) == [kind |-> kind, src |-> src, opt |-> opt, dce |-> dce]
NoBlob == Blob("none", <<>>, "none", FALSE)
EmptyBlob == Blob("empty", <<>>, "none", FALSE)
StaleBlob == Blob("stale", <<>>, "none", FALSE)

\* The contents of the caller's three output objects before the call.
Priors ==
    {[glsl |-> <<>>, spirv |-> EmptyBlob, msl |-> <<>>],
     [glsl |-> StaleText, spirv |-> StaleBlob, msl |-> StaleText]}

Ev(op) == [op |-> op, blob |-> NoBlob]
EvB(op, blob) == [op |-> op, blob |-> blob]

IdleCall ==
    [inputShader |-> <<>>, glsl |-> FALSE, spirv |-> FALSE, msl |-> FALSE,
     shaderModel |-> "UNKNOWN", shaderType |-> "VERTEX",
     prior |-> [glsl |-> <<>>, spirv |-> EmptyBlob, msl |-> <<>>]]

\* Locals of a call: results of the external calls ("unset" before), the
\* passes registered with the optimizer, the text the branch wrote to
\* *mGlslOutput and whether it wrote one.
NoLocal ==
    [parse |-> "unset", link |-> "unset", preprocess |-> "unset",
     reparse |-> "unset", relink |-> "unset", optimizer |-> "unset",
     passes |-> <<>>, glsl |-> <<>>, hasGlsl |-> FALSE,
     langVersion |-> [version |-> "unset"],
     reLangVersion |-> [version |-> "unset"], shLang |-> "unset"]

Res(ok) == IF ok THEN "ok" ELSE "failed"

Ptr(requested, c) == IF requested THEN c ELSE Null

\* GlslangToSpv
GlslangToSpv(text) == Blob("ir", text, "none", FALSE)

\* a faulty variant: the fast exit compacts the text like the other branches
FastExitTextShrunk(inputShader) == shrinkString(inputShader)

\* *outputGlsl = inputShader on the fast exit
FastExitText(inputShader) == inputShader

\* a faulty variant: a front-end failure is logged and the call goes on
FrontEndNeverAborts(ok) == FALSE

\* if (!ok) { ...; return false; } after parse and after link
FrontEndAborts(ok) == ~ok

\* config.shaderType, and the stage process() keeps in mShLang for it
ShaderTypes == {"VERTEX", "FRAGMENT"}
ShLang(shaderType) ==
    IF shaderType = "VERTEX" THEN "EShLangVertex" ELSE "EShLangFragment"

\* GLSLTools::glslangVersionFromShaderModel: the version of a shader model
glslangVersionFromShaderModel(shaderModel) == [version |-> shaderModel]
\* mLangVersion before the first assignment; it is not read before it
NoVersion == [version |-> "unset"]

\* config.shaderModel
ShaderModels == {"UNKNOWN", "GL_ES_30", "GL_CORE_41"}

\* the passes both profiles register first, and the one left out for GL_CORE_41
HeadPasses == <<"WrapOpKill", "DeadBranchElim">>
MergeReturnPasses(shaderModel) ==
    IF shaderModel # "GL_CORE_41" THEN <<"MergeReturn">> ELSE <<>>

PerformanceTail ==
    <<"InlineExhaustive", "AggressiveDCE", "PrivateToLocal",
      "LocalSingleBlockLoadStoreElim", "LocalSingleStoreElim",
      "AggressiveDCE", "ScalarReplacement", "LocalAccessChainConvert",
      "LocalSingleBlockLoadStoreElim", "LocalSingleStoreElim",
      "AggressiveDCE", "LocalMultiStoreElim", "AggressiveDCE", "CCP",
      "AggressiveDCE", "RedundancyElimination", "CombineAccessChains",
      "Simplification", "VectorDCE", "DeadInsertElim", "DeadBranchElim",
      "Simplification", "IfConversion", "CopyPropagateArrays",
      "ReduceLoadSize", "AggressiveDCE", "BlockMerge",
      "RedundancyElimination", "DeadBranchElim", "BlockMerge",
      "Simplification">>

SizeTail ==
    <<"InlineExhaustive", "EliminateDeadFunctions", "PrivateToLocal",
      "ScalarReplacement(0)", "LocalMultiStoreElim", "CCP",
      "LoopUnroll(true)", "DeadBranchElim", "Simplification",
      "ScalarReplacement(0)", "LocalSingleStoreElim", "IfConversion",
      "Simplification", "AggressiveDCE", "DeadBranchElim", "BlockMerge",
      "LocalAccessChainConvert", "LocalSingleBlockLoadStoreElim",
      "AggressiveDCE", "CopyPropagateArrays", "VectorDCE",
      "DeadInsertElim", "LocalSingleStoreElim", "BlockMerge",
      "LocalMultiStoreElim", "RedundancyElimination", "Simplification",
      "AggressiveDCE", "CFGCleanup">>

registerPerformancePasses(shaderModel) ==
    HeadPasses \o MergeReturnPasses(shaderModel) \o PerformanceTail

\* a faulty variant: the merge-return pass is registered for every model
registerSizePassesAlways(shaderModel) ==
    HeadPasses \o <<"MergeReturn">> \o SizeTail

registerSizePasses(shaderModel) ==
    HeadPasses \o MergeReturnPasses(shaderModel) \o SizeTail

\* the passes of the optimizer createOptimizer returns
createOptimizer(optimization, shaderModel) ==
    IF optimization = "SIZE" THEN registerSizePasses(shaderModel)
    ELSE IF optimization = "PERFORMANCE" THEN registerPerformancePasses(shaderModel)
    ELSE <<>>

\* a faulty variant: the remap is part of the size profile only
optimizeSpirvRemapForSize(level, spirv, runOk) ==
    IF ~runOk
    THEN [spirv |-> [spirv EXCEPT !.opt = "failed"],
          log |-> <<Ev("optimizer.Run"), Ev("SPIR-V optimizer pass failed")>>]
    ELSE IF level = "SIZE"
    THEN [spirv |-> [spirv EXCEPT !.opt = level, !.dce = TRUE],
          log |-> <<Ev("optimizer.Run"), Ev("remap")>>]
    ELSE [spirv |-> [spirv EXCEPT !.opt = level],
          log |-> <<Ev("optimizer.Run")>>]

\* a faulty variant: the remap follows the run whatever it returned
optimizeSpirvRemapAlways(level, spirv, runOk) ==
    IF ~runOk
    THEN [spirv |-> [spirv EXCEPT !.opt = "failed", !.dce = TRUE],
          log |-> <<Ev("optimizer.Run"), Ev("SPIR-V optimizer pass failed"),
                    Ev("remap")>>]
    ELSE [spirv |-> [spirv EXCEPT !.opt = level, !.dce = TRUE],
          log |-> <<Ev("optimizer.Run"), Ev("remap")>>]

\* optimizeSpirv: [spirv, log].  A failed Run returns before the remap.
optimizeSpirv(level, spirv, runOk) ==
    IF ~runOk
    THEN [spirv |-> [spirv EXCEPT !.opt = "failed"],
          log |-> <<Ev("optimizer.Run"), Ev("SPIR-V optimizer pass failed")>>]
    ELSE [spirv |-> [spirv EXCEPT !.opt = level, !.dce = TRUE],
          log |-> <<Ev("optimizer.Run"), Ev("remap")>>]

\* a faulty variant: the two calls in the other order
minifyThenShrink(text, order) == shrinkString(minifyStructFields(text, order))

\* *mGlslOutput = shrinkString(*mGlslOutput);
\* *mGlslOutput = minifyStructFields(*mGlslOutput);
postProcessGlsl(text, order) == minifyStructFields(shrinkString(text), order)

\* the orders the minifier may iterate in when post-processing text
postProcessOrders(text) == Orders(minifyKeys(shrinkString(text)))

\* shrinkString or minifyStructFields reads out of range on this text
postProcessReadsPastEnd(text) ==
    shrinkReadsPastEnd(text) \/ minifyReadsPastEnd(shrinkString(text))

ProcInit ==
    /\ mGlslOutput = Null
    /\ mSpirvOutput = Null
    /\ mMslOutput = Null
    /\ mShLang = "unset"
    /\ mLangVersion = NoVersion
    /\ pc = [c \in Callers |-> "idle"]
    /\ call = [c \in Callers |-> IdleCall]
    /\ outputGlsl = [c \in Callers |-> <<>>]
    /\ outputSpirv = [c \in Callers |-> EmptyBlob]
    /\ outputMsl = [c \in Callers |-> <<>>]
    /\ local = [c \in Callers |-> NoLocal]
    /\ ret = [c \in Callers |-> FALSE]
    /\ log = [c \in Callers |-> <<>>]

\* a faulty variant: a member that holds a pointer keeps it
keepMember(member, ptr) == IF member # Null THEN member ELSE ptr

\* mGlslOutput = outputGlsl; mSpirvOutput = outputSpirv; mMslOutput = outputMsl;
assignMember(member, ptr) == ptr

\* a faulty variant: there is no fast exit
NeverFastExit(optimization, spirv) == FALSE

\* targetApi == TargetApi::OPENGL && mOptimization == Optimization::NONE,
\* where targetApi is VULKAN exactly when outputSpirv is not null
TakesFastExit(optimization, spirv) == ~spirv /\ optimization = "NONE"

\* process() up to the front-end: the fast exit, or the members are set.
\* On the fast exit *outputGlsl is written without a null check.
ProcessBegin(c) ==
    /\ pc[c] = "idle"
    /\ \E inputShader \in InputShaders, g, s, m \in BOOLEAN, prior \in Priors,
          shaderModel \in ShaderModels, shaderType \in ShaderTypes :
        /\ call' = [call EXCEPT ![c] =
                       [inputShader |-> inputShader, glsl |-> g, spirv |-> s,
                        msl |-> m, shaderModel |-> shaderModel,
                        shaderType |-> shaderType,
                        prior |-> prior]]
        /\ local' = [local EXCEPT ![c] =
                        IF TakesFastExit(mOptimization, s) /\ g
                        THEN [NoLocal EXCEPT !.glsl = FastExitText(inputShader),
                                             !.hasGlsl = TRUE]
                        ELSE NoLocal]
        /\ outputSpirv' = [outputSpirv EXCEPT ![c] = prior.spirv]
        /\ outputMsl' = [outputMsl EXCEPT ![c] = prior.msl]
        /\ IF TakesFastExit(mOptimization, s)
           THEN /\ UNCHANGED <<mGlslOutput, mSpirvOutput, mMslOutput, mShLang,
                              mLangVersion>>
                /\ IF g
                   THEN /\ outputGlsl' = [outputGlsl EXCEPT ![c] = FastExitText(inputShader)]
                        /\ log' = [log EXCEPT ![c] = <<Ev("write outputGlsl")>>]
                        /\ ret' = [ret EXCEPT ![c] = TRUE]
                        /\ pc' = [pc EXCEPT ![c] = "done"]
                   ELSE \* a write through a null pointer
                        /\ outputGlsl' = [outputGlsl EXCEPT ![c] = prior.glsl]
                        /\ log' = [log EXCEPT ![c] = <<Ev("deref null outputGlsl")>>]
                        /\ \/ /\ ret' = [ret EXCEPT ![c] = TRUE]
                              /\ pc' = [pc EXCEPT ![c] = "done"]
                           \/ /\ ret' = [ret EXCEPT ![c] = FALSE]
                              /\ pc' = [pc EXCEPT ![c] = "crashed"]
           ELSE /\ mGlslOutput' = assignMember(mGlslOutput, Ptr(g, c))
                /\ mSpirvOutput' = assignMember(mSpirvOutput, Ptr(s, c))
                /\ mMslOutput' = assignMember(mMslOutput, Ptr(m, c))
                /\ mShLang' = ShLang(shaderType)
                /\ mLangVersion' = glslangVersionFromShaderModel(shaderModel)
                /\ outputGlsl' = [outputGlsl EXCEPT ![c] = prior.glsl]
                /\ log' = [log EXCEPT ![c] = <<>>]
                /\ ret' = [ret EXCEPT ![c] = FALSE]
                /\ pc' = [pc EXCEPT ![c] = "parse"]
    /\ UNCHANGED mOptimization

\* tShader.parse
Parse(c) ==
    /\ pc[c] = "parse"
    /\ \E ok \in BOOLEAN :
        /\ local' = [local EXCEPT ![c].parse = Res(ok),
                                  ![c].langVersion = mLangVersion]
        /\ log' = [log EXCEPT ![c] = Append(@, Ev("parse"))]
        /\ pc' = [pc EXCEPT ![c] = IF FrontEndAborts(ok) THEN "done" ELSE "link"]
    /\ UNCHANGED <<mOptimization, mGlslOutput, mSpirvOutput, mMslOutput, mShLang,
                   mLangVersion, call, outputGlsl, outputSpirv, outputMsl, ret>>

\* program.link
Link(c) ==
    /\ pc[c] = "link"
    /\ \E linkOk \in BOOLEAN :
        /\ local' = [local EXCEPT ![c].link = Res(linkOk)]
        /\ log' = [log EXCEPT ![c] = Append(@, Ev("link"))]
        /\ pc' = [pc EXCEPT ![c] = IF FrontEndAborts(linkOk) THEN "done" ELSE "switch"]
    /\ UNCHANGED <<mOptimization, mGlslOutput, mSpirvOutput, mMslOutput, mShLang,
                   mLangVersion, call, outputGlsl, outputSpirv, outputMsl, ret>>

\* SpvToMsl(spirv, outMsl, config): the text written to *outMsl
SpvToMslTexts == {shrinkString(t) : t \in MslTexts}

\* case MaterialBuilder::Optimization::NONE
OptimizationNone(c) ==
    /\ pc[c] = "switch"
    /\ mOptimization = "NONE"
    /\ IF mSpirvOutput # Null
       THEN LET spirv == GlslangToSpv(call[c].inputShader)
            IN  /\ outputSpirv' = [outputSpirv EXCEPT ![mSpirvOutput] = spirv]
                /\ IF mMslOutput # Null
                   THEN \E msl \in SpvToMslTexts :
                        /\ outputMsl' = [outputMsl EXCEPT ![mMslOutput] = msl]
                        /\ log' = [log EXCEPT ![c] = @ \o
                               <<Ev("GlslangToSpv"), Ev("write outputSpirv"),
                                 EvB("SpvToMsl", spirv), Ev("write outputMsl")>>]
                   ELSE /\ UNCHANGED outputMsl
                        /\ log' = [log EXCEPT ![c] = @ \o
                               <<Ev("GlslangToSpv"), Ev("write outputSpirv")>>]
       ELSE /\ log' = [log EXCEPT ![c] = Append(@,
                   Ev("GLSL post-processor invoked with optimization level NONE"))]
            /\ UNCHANGED <<outputSpirv, outputMsl>>
    /\ local' = [local EXCEPT ![c].shLang =
                                  IF mSpirvOutput # Null THEN mShLang ELSE @]
    /\ pc' = [pc EXCEPT ![c] = "post"]
    /\ UNCHANGED <<mOptimization, mGlslOutput, mSpirvOutput, mMslOutput, mShLang,
                   mLangVersion, call, outputGlsl, ret>>

\* preprocessOptimization.  ok, parseOk, linkOk are the results of
\* tShader.preprocess, spirvShader.parse and program.link; glsl is the text
\* preprocess left in the local string.  SpvToMsl dereferences mSpirvOutput
\* whether or not it is null and whether or not the blob was written.
PreprocessBody(c, ok, glsl, parseOk, linkOk) ==
    LET lowered == mSpirvOutput # Null /\ parseOk /\ linkOk
        spirv == IF lowered THEN GlslangToSpv(glsl)
                 ELSE IF mSpirvOutput # Null THEN outputSpirv[mSpirvOutput]
                 ELSE NoBlob
        logParse == IF mSpirvOutput = Null THEN <<>>
                    ELSE <<Ev("reparse"), Ev("relink")>> \o
                         (IF lowered
                          THEN <<Ev("GlslangToSpv"), Ev("write outputSpirv")>>
                          ELSE <<>>)
        logMsl == IF mMslOutput = Null THEN <<>>
                  ELSE IF mSpirvOutput = Null THEN <<Ev("deref null mSpirvOutput")>>
                  ELSE <<EvB("SpvToMsl", spirv), Ev("write outputMsl")>>
        logGlsl == IF mGlslOutput = Null THEN <<>> ELSE <<Ev("write outputGlsl")>>
        loc == [local[c] EXCEPT !.preprocess = Res(ok),
                                !.reparse = IF mSpirvOutput = Null THEN "unset"
                                            ELSE Res(parseOk),
                                !.relink = IF mSpirvOutput = Null THEN "unset"
                                           ELSE Res(linkOk),
                                !.shLang = IF mSpirvOutput = Null THEN "unset"
                                           ELSE mShLang,
                                !.reLangVersion =
                                    IF mSpirvOutput = Null THEN NoVersion
                                    ELSE mLangVersion]
    IN  /\ outputSpirv' = IF lowered
                          THEN [outputSpirv EXCEPT ![mSpirvOutput] = spirv]
                          ELSE outputSpirv
        /\ \/ /\ \E msl \in IF mMslOutput = Null THEN {<<>>} ELSE SpvToMslTexts :
                    outputMsl' = IF mMslOutput = Null THEN outputMsl
                                 ELSE [outputMsl EXCEPT ![mMslOutput] = msl]
              /\ outputGlsl' = IF mGlslOutput = Null THEN outputGlsl
                               ELSE [outputGlsl EXCEPT ![mGlslOutput] = glsl]
              /\ local' = [local EXCEPT ![c] =
                              [loc EXCEPT !.glsl = IF mGlslOutput = Null THEN <<>> ELSE glsl,
                                          !.hasGlsl = mGlslOutput # Null]]
              /\ log' = [log EXCEPT ![c] =
                            @ \o <<Ev("preprocess")>> \o logParse \o logMsl \o logGlsl]
              /\ pc' = [pc EXCEPT ![c] = "post"]
           \/ \* the null blob pointer is dereferenced
              /\ mMslOutput # Null /\ mSpirvOutput = Null
              /\ UNCHANGED <<outputMsl, outputGlsl>>
              /\ local' = [local EXCEPT ![c] = loc]
              /\ log' = [log EXCEPT ![c] =
                            @ \o <<Ev("preprocess")>> \o logParse \o logMsl]
              /\ pc' = [pc EXCEPT ![c] = "crashed"]

\* case MaterialBuilder::Optimization::PREPROCESSOR
PreprocessOptimization(c) ==
    /\ pc[c] = "switch"
    /\ mOptimization = "PREPROCESSOR"
    /\ \E ok \in BOOLEAN, glsl \in GeneratedTexts :
          IF mSpirvOutput # Null
          THEN \E parseOk, linkOk \in BOOLEAN : PreprocessBody(c, ok, glsl, parseOk, linkOk)
          ELSE PreprocessBody(c, ok, glsl, FALSE, FALSE)
    /\ UNCHANGED <<mOptimization, mGlslOutput, mSpirvOutput, mMslOutput, mShLang,
                   mLangVersion, call, ret>>

\* case SIZE, PERFORMANCE: fullOptimization.  runOk is the result of
\* optimizer->Run, which optimizeSpirv does not hand back to its caller.
FullOptimization(c) ==
    /\ pc[c] = "switch"
    /\ mOptimization \in {"SIZE", "PERFORMANCE"}
    /\ \E runOk \in BOOLEAN,
          msl \in IF mMslOutput = Null THEN {<<>>} ELSE SpvToMslTexts,
          glsl \in IF mGlslOutput = Null THEN {<<>>} ELSE GeneratedTexts :
        LET o == optimizeSpirv(mOptimization, GlslangToSpv(call[c].inputShader), runOk)
            logSpirv == IF mSpirvOutput = Null THEN <<>> ELSE <<Ev("write outputSpirv")>>
            logMsl == IF mMslOutput = Null THEN <<>>
                      ELSE <<EvB("SpvToMsl", o.spirv), Ev("write outputMsl")>>
            logGlsl == IF mGlslOutput = Null THEN <<>>
                       ELSE <<EvB("decompile", o.spirv), Ev("write outputGlsl")>>
        IN  /\ outputSpirv' = IF mSpirvOutput = Null THEN outputSpirv
                              ELSE [outputSpirv EXCEPT ![mSpirvOutput] = o.spirv]
            /\ outputMsl' = IF mMslOutput = Null THEN outputMsl
                            ELSE [outputMsl EXCEPT ![mMslOutput] = msl]
            /\ outputGlsl' = IF mGlslOutput = Null THEN outputGlsl
                             ELSE [outputGlsl EXCEPT ![mGlslOutput] = glsl]
            /\ local' = [local EXCEPT ![c].optimizer = Res(runOk),
                                      ![c].passes =
                                          createOptimizer(mOptimization,
                                                          call[c].shaderModel),
                                      ![c].glsl = glsl,
                                      ![c].hasGlsl = mGlslOutput # Null]
            /\ log' = [log EXCEPT ![c] =
                          @ \o <<Ev("GlslangToSpv"), Ev("createOptimizer")>> \o o.log
                            \o logSpirv \o logMsl \o logGlsl]
    /\ pc' = [pc EXCEPT ![c] = "post"]
    /\ UNCHANGED <<mOptimization, mGlslOutput, mSpirvOutput, mMslOutput, mShLang,
                   mLangVersion, call, ret>>

\* if (mGlslOutput) { shrinkString; minifyStructFields; }  return true;
PostProcess(c) ==
    /\ pc[c] = "post"
    /\ IF mGlslOutput = Null
       THEN /\ ret' = [ret EXCEPT ![c] = TRUE]
            /\ pc' = [pc EXCEPT ![c] = "done"]
            /\ UNCHANGED <<outputGlsl, log>>
       ELSE \/ /\ \E order \in postProcessOrders(outputGlsl[mGlslOutput]) :
                     outputGlsl' = [outputGlsl EXCEPT ![mGlslOutput] =
                                       postProcessGlsl(@, order)]
               /\ log' = [log EXCEPT ![c] =
                             @ \o <<Ev("shrinkString"), Ev("minifyStructFields")>>]
               /\ ret' = [ret EXCEPT ![c] = TRUE]
               /\ pc' = [pc EXCEPT ![c] = "done"]
            \/ \* an out-of-range read ends the process
               /\ postProcessReadsPastEnd(outputGlsl[mGlslOutput])
               /\ log' = [log EXCEPT ![c] = Append(@, Ev("read out of range"))]
               /\ pc' = [pc EXCEPT ![c] = "crashed"]
               /\ UNCHANGED <<outputGlsl, ret>>
    /\ UNCHANGED <<mOptimization, mGlslOutput, mSpirvOutput, mMslOutput, mShLang,
                   mLangVersion, call, outputSpirv, outputMsl, local>>

\* The caller takes the result; its output objects go out of scope.  The
\* members of the instance keep the pointers of the call.
Return(c) ==
    /\ pc[c] = "done"
    /\ pc' = [pc EXCEPT ![c] = "idle"]
    /\ call' = [call EXCEPT ![c] = IdleCall]
    /\ local' = [local EXCEPT ![c] = NoLocal]
    /\ ret' = [ret EXCEPT ![c] = FALSE]
    /\ log' = [log EXCEPT ![c] = <<>>]
    /\ outputGlsl' = [outputGlsl EXCEPT ![c] = <<>>]
    /\ outputSpirv' = [outputSpirv EXCEPT ![c] = EmptyBlob]
    /\ outputMsl' = [outputMsl EXCEPT ![c] = <<>>]
    /\ UNCHANGED <<mOptimization, mGlslOutput, mSpirvOutput, mMslOutput, mShLang,
                   mLangVersion>>

MinIdle ==
    /\ source = <<>>
    /\ minified = [status |-> "idle", text |-> <<>>, lines |-> <<>>]

ScanIdle ==
    /\ scan = ScanInit
    /\ fed = <<>>

Init ==
    /\ mOptimization \in Levels
    /\ ProcInit
    /\ MinIdle
    /\ ScanIdle

\* Spec: one thread calls process() on the instance, one call after another.
ProcFrame == UNCHANGED <<minVars, scanVars>>

Next ==
    \/ ProcessBegin("t1") /\ ProcFrame
    \/ Parse("t1") /\ ProcFrame
    \/ Link("t1") /\ ProcFrame
    \/ OptimizationNone("t1") /\ ProcFrame
    \/ PreprocessOptimization("t1") /\ ProcFrame
    \/ FullOptimization("t1") /\ ProcFrame
    \/ PostProcess("t1") /\ ProcFrame
    \/ Return("t1") /\ ProcFrame

Spec == Init /\ [][Next]_vars

-----------------------------------------------------------------------------
(* ConcSpec: two threads call process() on the same instance               *)

\* The request of each thread: the threads differ in the text, the stage
\* and the shader model, so that what a call used tells whose it was.  The
\* output objects are empty before the call; t1 passes all three pointers,
\* t2 any of the GLSL and the IR pointer and no MSL pointer.
ConcRequest(c) ==
    IF c = "t1"
    THEN [inputShader |-> TextA, shaderType |-> "VERTEX",
          shaderModel |-> "GL_ES_30"]
    ELSE [inputShader |-> TextB, shaderType |-> "FRAGMENT",
          shaderModel |-> "GL_CORE_41"]

ConcProcessBegin(c) ==
    /\ ProcessBegin(c)
    /\ call'[c].inputShader = ConcRequest(c).inputShader
    /\ call'[c].shaderType = ConcRequest(c).shaderType
    /\ call'[c].shaderModel = ConcRequest(c).shaderModel
    /\ call'[c].prior = [glsl |-> <<>>, spirv |-> EmptyBlob, msl |-> <<>>]
    /\ c = "t1" => (call'[c].glsl /\ call'[c].spirv /\ call'[c].msl)
    /\ c = "t2" => ~call'[c].msl

\* process() takes no lock: the steps of the two calls interleave freely.
\* Each thread makes one call.
ConcNext ==
    \/ \E c \in Callers : ConcProcessBegin(c) /\ ProcFrame
    \/ \E c \in Callers : Parse(c) /\ ProcFrame
    \/ \E c \in Callers : Link(c) /\ ProcFrame
    \/ \E c \in Callers : OptimizationNone(c) /\ ProcFrame
    \/ \E c \in Callers : PreprocessOptimization(c) /\ ProcFrame
    \/ \E c \in Callers : FullOptimization(c) /\ ProcFrame
    \/ \E c \in Callers : PostProcess(c) /\ ProcFrame

ConcSpec == Init /\ [][ConcNext]_vars

-----------------------------------------------------------------------------
(* MinSpec: minifyStructFields on bounded source texts                     *)

\* the number of codelines of a source text
MaxLines == 6

LineUniformT == <<"u","n","i","f","o","r","m"," ","T">>
LineUniformMP == <<"u","n","i","f","o","r","m"," ",
                   "M","a","t","e","r","i","a","l","P","a","r","a","m","s">>
LineOpen == <<"{">>
LineDeclB == <<"f","l","o","a","t"," ","b",";">>
LineDeclA == <<"f","l","o","a","t"," ","a",";">>
\* a declaration that goes on on the next line
LineDeclN == <<"i","n","t"," ","n">>
\* a declaration with an array size
LineDeclV == <<"v","e","c","4"," ","v","[","4","]",";">>
LineCloseI == <<"}"," ","I",";">>
LineCloseJ == <<"}"," ","J",";">>
LineUseI == <<"x","=","I",".","b","+","I",".","a",";">>
LineUseJ == <<"y","=","J",".","b",";">>

\* The lines a text is continued with, by the state the scan loop is in
\* at the end of the text: what the grammar expects there, and lines that
\* do not fit it.
Menu(state) ==
    CASE state = "OUTSIDE" -> {LineUniformT, LineUniformMP, LineUseI, LineUseJ}
      [] state = "STRUCT_OPEN" -> {LineOpen, LineUniformT, LineUseI}
      [] state = "STRUCT_DEFN" ->
            {LineDeclB, LineDeclA, LineDeclN, LineDeclV, LineCloseI, LineCloseJ}

ProcIdle ==
    /\ mOptimization = "NONE"
    /\ ProcInit

MinInit ==
    /\ source = <<>>
    /\ minified = [status |-> "none", text |-> <<>>, lines |-> <<>>]
    /\ ProcIdle
    /\ ScanIdle

\* the caller's text grows by one line
AppendLine ==
    /\ minified.status = "none"
    /\ Len(splitLines(source)) < MaxLines
    /\ \E l \in Menu(scanPass(splitLines(source)).state) :
          source' = source \o l \o <<NL>>
    /\ UNCHANGED minified

\* minifyStructFields(source) returns
Minify ==
    /\ minified.status = "none"
    /\ \E order \in Orders(minifyKeys(source)) :
          minified' = [status |-> "done",
                       text |-> minifyStructFields(source, order),
                       lines |-> minifyLines(source, order)]
    /\ UNCHANGED source

\* minifyStructFields(source) reads a string_view out of range and a
\* checked build ends the process there
MinifyAborts ==
    /\ minified.status = "none"
    /\ minifyReadsPastEnd(source)
    /\ minified' = [status |-> "aborted", text |-> <<>>, lines |-> <<>>]
    /\ UNCHANGED source

MinFrame == UNCHANGED <<procVars, scanVars>>

MinNext ==
    \/ AppendLine /\ MinFrame
    \/ Minify /\ MinFrame
    \/ MinifyAborts /\ MinFrame

MinSpec == MinInit /\ [][MinNext]_vars

-----------------------------------------------------------------------------
(* ScanSpec: the scan loop fed one codeline at a time                      *)

\* the number of fields fed over all struct bodies, and of struct bodies fed
MaxFields == 53
MaxBlocks == 2

DigitSeq == <<"0","1","2","3","4","5","6","7","8","9">>

\* the k-th field identifier: f1, f2, ...
RECURSIVE Decimal(_)
Decimal(k) ==
    IF k < 10 THEN <<DigitSeq[k + 1]>>
    ELSE Decimal(k \div 10) \o <<DigitSeq[(k % 10) + 1]>>

FieldName(k) == <<"f">> \o Decimal(k)

\* the number of fields of the struct bodies closed so far
RECURSIVE FedFields(_)
FedFields(b) ==
    IF b = 0 THEN 0 ELSE Len(fed[b].fields) + FedFields(b - 1)

ScanSpecInit ==
    /\ scan = ScanInit
    /\ fed = <<>>
    /\ ProcIdle
    /\ MinIdle

\* "uniform T"
FeedUniform ==
    /\ scan.state = "OUTSIDE"
    /\ Len(fed) < MaxBlocks
    /\ scan' = scanLine(scan, LineUniformT)
    /\ UNCHANGED fed

\* "{"
FeedOpen ==
    /\ scan.state = "STRUCT_OPEN"
    /\ scan' = scanLine(scan, LineOpen)
    /\ UNCHANGED fed

\* "float f<k>;" with the next unused k
FeedField ==
    /\ scan.state = "STRUCT_DEFN"
    /\ FedFields(Len(fed)) + Len(scan.fields) < MaxFields
    /\ scan' = scanLine(scan, <<"f","l","o","a","t"," ">>
                                 \o FieldName(Len(scan.fields) + 1) \o <<";">>)
    /\ UNCHANGED fed

\* "} I;" and "} J;" in turn; fed keeps the instance name and the fields of
\* the body
FeedClose ==
    /\ scan.state = "STRUCT_DEFN"
    /\ LET l == IF Len(fed) % 2 = 0 THEN LineCloseI ELSE LineCloseJ
       IN  /\ scan' = scanLine(scan, l)
           /\ fed' = Append(fed, [structName |-> matchClose(l).structName,
                                  fields |-> scan.fields])

ScanFrame == UNCHANGED <<procVars, minVars>>

ScanNext ==
    \/ FeedUniform /\ ScanFrame
    \/ FeedOpen /\ ScanFrame
    \/ FeedField /\ ScanFrame
    \/ FeedClose /\ ScanFrame

ScanSpec == ScanSpecInit /\ [][ScanNext]_vars

-----------------------------------------------------------------------------
(* BlockSpec: minifyStructFields on texts built of whole uniform blocks    *)

\* the number of units (uniform blocks and lines of uses) of a source text
MaxUnits == 3

LineUniformU == <<"u","n","i","f","o","r","m"," ","U">>
LineDeclC == <<"f","l","o","a","t"," ","c",";">>
LineDeclD == <<"f","l","o","a","t"," ","d",";">>
LineUseCD == <<"x","=","I",".","c","+","I",".","d",";">>
LineUseJD == <<"y","=","J",".","d",";">>

\* the text of a uniform block
BlockText(uniformLine, decl1, decl2, closeLine) ==
    uniformLine \o <<NL>> \o LineOpen \o <<NL>> \o decl1 \o <<NL>>
        \o decl2 \o <<NL>> \o closeLine \o <<NL>>

\* blocks of type T or U: instance I declares c then d, instance J d then c
BlockMenu ==
    {BlockText(u, b.decls[1], b.decls[2], b.close) :
        u \in {LineUniformT, LineUniformU},
        b \in {[decls |-> <<LineDeclC, LineDeclD>>, close |-> LineCloseI],
               [decls |-> <<LineDeclD, LineDeclC>>, close |-> LineCloseJ]}}

UseMenu == {LineUseCD, LineUseJD}

\* the units of a text: its closed blocks and its lines outside the blocks
Units(src) ==
    LET codelines == splitLines(src)
    IN  Cardinality({i \in 1..Len(codelines) :
            codelines[i] \in UseMenu \cup {LineCloseI, LineCloseJ}})

\* the lines of src that use fields
UseLines(src) ==
    LET codelines == splitLines(src)
    IN  {i \in 1..Len(codelines) : codelines[i] \in UseMenu}

\* the caller's text grows by a uniform block; the blocks come before the
\* lines that use them
AppendBlock ==
    /\ minified.status = "none"
    /\ Units(source) < MaxUnits
    /\ UseLines(source) = {}
    /\ \E b \in BlockMenu : source' = source \o b
    /\ UNCHANGED minified

\* the caller's text grows by a line that uses fields
AppendUse ==
    /\ minified.status = "none"
    /\ Units(source) < MaxUnits
    /\ \E l \in UseMenu : source' = source \o l \o <<NL>>
    /\ UNCHANGED minified

BlockNext ==
    \/ AppendBlock /\ MinFrame
    \/ AppendUse /\ MinFrame
    \/ Minify /\ MinFrame

BlockSpec == MinInit /\ [][BlockNext]_vars

-----------------------------------------------------------------------------
(* TextSpec: shrinkString and minifyStructFields on texts built of pieces  *)

\* the number of pieces of a source text
MaxPieces == 5

\* a newline, a space, a tab, a character of code, a uniform block header
PieceMenu == {<<NL>>, <<" ">>, <<"\t">>, <<"x">>, LineUniformT}

\* the pieces of src: a header with its newline is one piece, every other
\* character one; only the headers hold the letter u
Pieces(src) ==
    Len(src) - Len(LineUniformT) * Cardinality({i \in 1..Len(src) : src[i] = "u"})

\* the caller's text grows by a piece; a header stands at the start of a
\* line and ends it
AppendPiece ==
    /\ minified.status = "none"
    /\ Pieces(source) < MaxPieces
    /\ \E p \in PieceMenu :
        /\ p = LineUniformT =>
              (IF source = <<>> THEN TRUE ELSE source[Len(source)] = NL)
        /\ source' = IF p = LineUniformT THEN source \o p \o <<NL>>
                     ELSE source \o p
    /\ UNCHANGED minified

\* shrinkString(source) returns.  On a text without a final newline this
\* is the outcome in which the reads past the end find a newline.
Shrink ==
    /\ minified.status = "none"
    /\ minified' = [status |-> "shrunk", text |-> shrinkString(source),
                    lines |-> <<>>]
    /\ UNCHANGED source

\* shrinkString(source) reads past the end of source and the process ends
ShrinkAborts ==
    /\ minified.status = "none"
    /\ shrinkReadsPastEnd(source)
    /\ minified' = [status |-> "aborted", text |-> <<>>, lines |-> <<>>]
    /\ UNCHANGED source

TextNext ==
    \/ AppendPiece /\ MinFrame
    \/ Shrink /\ MinFrame
    \/ ShrinkAborts /\ MinFrame
    \/ Minify /\ MinFrame

TextSpec == MinInit /\ [][TextNext]_vars

-----------------------------------------------------------------------------
(* Claims about process (Spec)                                             *)

WriteOps == {"write outputGlsl", "write outputSpirv", "write outputMsl"}
NullDerefOps == {"deref null outputGlsl", "deref null mSpirvOutput"}

\* the positions of the log of c that hold one of ops
LogAt(c, ops) == {i \in 1..Len(log[c]) : log[c][i].op \in ops}

\* the call of c is past the front-end
PastFrontEnd(c) == pc[c] \in {"post", "done"} /\ local[c].link = "ok"

\* C1: for any combination of supplied and null output pointers and any
\* optimization level, process never writes to or dereferences an output
\* that was not requested, and after a call that returns success the
\* objects behind unrequested outputs are as they were.
C1_OutputGating ==
    \A c \in Callers :
        /\ LogAt(c, NullDerefOps) = {}
        /\ (pc[c] = "done" /\ ret[c]) =>
              /\ ~call[c].glsl => outputGlsl[c] = call[c].prior.glsl
              /\ ~call[c].spirv => outputSpirv[c] = call[c].prior.spirv
              /\ ~call[c].msl => outputMsl[c] = call[c].prior.msl

\* C2: with level NONE and the GLSL output but no IR output requested,
\* process returns success, the GLSL output is the input text byte for byte,
\* and neither the front-end nor compaction nor minification ran.
C2_FastExitIdentity ==
    \A c \in Callers :
        (pc[c] = "done" /\ mOptimization = "NONE"
            /\ call[c].glsl /\ ~call[c].spirv) =>
            /\ ret[c]
            /\ outputGlsl[c] = call[c].inputShader
            /\ LogAt(c, {"parse", "link", "preprocess", "reparse", "relink",
                         "shrinkString", "minifyStructFields"}) = {}

C2_Witness ==
    /\ pc["t1"] = "done"
    /\ mOptimization = "NONE"
    /\ call["t1"].glsl /\ ~call["t1"].spirv /\ ~call["t1"].msl
    /\ call["t1"].inputShader = TextA
    /\ shrinkString(TextA) # TextA
    /\ outputGlsl["t1"] = TextA

\* C3: when the front-end parse or the link of the input fails, process
\* returns failure and has written none of the three outputs.
C3_FrontEndFailureWritesNothing ==
    \A c \in Callers :
        (pc[c] = "done" /\ "failed" \in {local[c].parse, local[c].link}) =>
            /\ ~ret[c]
            /\ LogAt(c, WriteOps) = {}
            /\ outputGlsl[c] = call[c].prior.glsl
            /\ outputSpirv[c] = call[c].prior.spirv
            /\ outputMsl[c] = call[c].prior.msl

C3_Witness ==
    /\ pc["t1"] = "done"
    /\ local["t1"].parse = "ok" /\ local["t1"].link = "failed"
    /\ call["t1"].glsl /\ call["t1"].spirv /\ call["t1"].msl
    /\ call["t1"].prior.glsl = StaleText
    /\ ~ret["t1"]

\* C4: under SIZE or PERFORMANCE, when the optimizer run fails, the IR
\* output, the secondary-language text and the decompiled GLSL text are not
\* written from the IR of the failed run.
C4_OptimizerFailureNoOutputs ==
    \A c \in Callers :
        (pc[c] \in {"post", "done"} /\ local[c].optimizer = "failed") =>
            /\ LogAt(c, WriteOps) = {}
            /\ outputSpirv[c] = call[c].prior.spirv
            /\ outputMsl[c] = call[c].prior.msl

\* C5: under PREPROCESSOR with an IR or secondary-language output requested,
\* when preprocessing fails and the re-parse or the link of the preprocessed
\* text fails, process returns failure.
C5_PreprocessFailureFatal ==
    \A c \in Callers :
        (pc[c] = "done" /\ mOptimization = "PREPROCESSOR"
            /\ (call[c].spirv \/ call[c].msl)
            /\ local[c].preprocess = "failed"
            /\ "failed" \in {local[c].reparse, local[c].relink}) =>
            ~ret[c]

\* C6 as stated: in every SIZE or PERFORMANCE call that passes the
\* front-end, the remap is executed after the optimizer run and before any
\* output is written, whatever the optimizer returned.
C6_RemapUnconditional ==
    \A c \in Callers :
        (PastFrontEnd(c) /\ mOptimization \in {"SIZE", "PERFORMANCE"}) =>
            \E r \in LogAt(c, {"remap"}) :
                /\ \E o \in LogAt(c, {"optimizer.Run"}) : o < r
                /\ \A w \in LogAt(c, WriteOps) : r < w

\* C6 amended: in every SIZE or PERFORMANCE call that passes the front-end
\* the optimizer is run once; the remap is executed exactly when that run
\* succeeded, whichever profile ran, and then after the run and before any
\* output is written; after a failed run the remap is skipped.
C6_RemapAfterSuccessfulRun ==
    \A c \in Callers :
        (PastFrontEnd(c) /\ mOptimization \in {"SIZE", "PERFORMANCE"}) =>
            /\ Cardinality(LogAt(c, {"optimizer.Run"})) = 1
            /\ (LogAt(c, {"remap"}) # {}) <=> (local[c].optimizer = "ok")
            /\ \A r \in LogAt(c, {"remap"}) :
                /\ \A o \in LogAt(c, {"optimizer.Run"}) : o < r
                /\ \A w \in LogAt(c, WriteOps) : r < w

C6_Witness ==
    /\ pc["t1"] = "done"
    /\ mOptimization = "PERFORMANCE"
    /\ local["t1"].optimizer = "ok"
    /\ LogAt("t1", {"remap"}) # {}
    /\ Cardinality(LogAt("t1", WriteOps)) = 3
    /\ outputSpirv["t1"].dce

\* C7 as stated: for every level, whenever a successful call produces GLSL
\* text, the final text is compaction then minification of the text the
\* branch produced in that call.
C7_PostProcessingEveryLevel ==
    \A c \in Callers :
        (pc[c] = "done" /\ ret[c] /\ call[c].glsl /\ local[c].hasGlsl) =>
            \E order \in Orders(minifyKeys(shrinkString(local[c].glsl))) :
                outputGlsl[c] =
                    minifyStructFields(shrinkString(local[c].glsl), order)

\* C7 amended: under PREPROCESSOR, SIZE and PERFORMANCE, whenever a
\* successful call has the GLSL output requested, the final text is
\* compaction then minification, in that order, of the text the branch
\* produced in that call.  Under NONE no produced text is compacted or
\* minified: the fast exit returns the input as it is, and with an IR output
\* the branch produces no text and the two passes run on what the caller's
\* string held.
C7_PostProcessingAfterBranch ==
    \A c \in Callers :
        (pc[c] = "done" /\ ret[c] /\ call[c].glsl) =>
            /\ mOptimization # "NONE" =>
                /\ local[c].hasGlsl
                /\ \E order \in Orders(minifyKeys(shrinkString(local[c].glsl))) :
                      outputGlsl[c] =
                          minifyStructFields(shrinkString(local[c].glsl), order)
            /\ (mOptimization = "NONE" /\ ~call[c].spirv) =>
                  outputGlsl[c] = call[c].inputShader
            /\ (mOptimization = "NONE" /\ call[c].spirv) =>
                /\ ~local[c].hasGlsl
                /\ \E order \in Orders(minifyKeys(shrinkString(call[c].prior.glsl))) :
                      outputGlsl[c] =
                          minifyStructFields(shrinkString(call[c].prior.glsl), order)

C7_Witness ==
    /\ pc["t1"] = "done" /\ ret["t1"]
    /\ mOptimization = "PREPROCESSOR"
    /\ call["t1"].glsl
    /\ local["t1"].glsl = TextA
    /\ outputGlsl["t1"] # shrinkString(TextA)
    /\ outputGlsl["t1"] # TextA
    /\ LogAt("t1", {"shrinkString"}) # {}

-----------------------------------------------------------------------------
(* Claims about minifyStructFields (MinSpec, ScanSpec)                     *)

\* the state of the scan loop before each codeline
RECURSIVE scanStatesFrom(_, _, _, _)
scanStatesFrom(st, codelines, i, acc) ==
    IF i > Len(codelines) THEN acc
    ELSE scanStatesFrom(scanLine(st, codelines[i]), codelines, i + 1,
                        Append(acc, st))

scanStates(codelines) == scanStatesFrom(ScanInit, codelines, 1, <<>>)

\* codeline i is a field declaration the scan pass records
IsRecordedDecl(codelines, states, i) ==
    /\ states[i].state = "STRUCT_DEFN"
    /\ ~matchClose(codelines[i]).found
    /\ matchFieldDecl(codelines[i]).ok

\* the lines that close a struct body in the scan pass, from line i on
ClosersFrom(codelines, states, i) ==
    {j \in i..Len(codelines) :
        states[j].state = "STRUCT_DEFN" /\ matchClose(codelines[j]).ok}

\* the body codeline i is in is closed: the block is recognised
InRecognisedBlock(codelines, states, i) ==
    /\ states[i].state = "STRUCT_DEFN"
    /\ ClosersFrom(codelines, states, i) # {}

\* the instance name of the block whose body codeline i is in
BlockInstance(codelines, states, i) ==
    LET cs == ClosersFrom(codelines, states, i)
        j == CHOOSE k \in cs : \A m \in cs : k <= m
    IN  matchClose(codelines[j]).structName

\* a line outside the struct bodies and their opening lines
IsOutsideLine(codelines, states, i) ==
    states[i].state = "OUTSIDE" /\ ~matchUniform(codelines[i]).ok

\* key stands at pos in line as a reference: I.F as whole tokens
RefAt(line, pos, key) ==
    /\ pos + Len(key) <= Len(line)
    /\ SubSeq(line, pos + 1, pos + Len(key)) = key
    /\ pos = 0 \/ ~isIdChar(At(line, pos - 1))
    /\ pos + Len(key) = Len(line) \/ ~isIdChar(At(line, pos + Len(key)))

\* line with every reference I.F replaced by table[I.F], each reference
\* replaced once and by the entry of the field it names
RECURSIVE RenameRefs(_, _, _)
RenameRefs(line, table, pos) ==
    IF pos >= Len(line) THEN <<>>
    ELSE LET hits == {k \in DOMAIN table : RefAt(line, pos, k)}
         IN  IF hits = {}
             THEN <<At(line, pos)>> \o RenameRefs(line, table, pos + 1)
             ELSE LET k == CHOOSE h \in hits : TRUE
                  IN  table[k] \o RenameRefs(line, table, pos + Len(k))

\* the part of a table value I.S after the dot
ShortName(val) == SubSeq(val, find(val, <<".">>, 0) + 2, Len(val))

\* C8: for every uniform block the scan pass recognises, with instance name
\* I, each recorded field F with short name S is declared as S in the output
\* struct body, and every reference I.F outside the struct bodies becomes I.S
\* in the output, so that each reference names the declaration it named
\* before.
C8_ReferencesFollowDeclarations ==
    minified.status = "done" =>
        LET codelines == splitLines(source)
            states == scanStates(codelines)
            table == scanPass(codelines).fieldMapping
        IN  \A i \in 1..Len(codelines) :
              /\ (IsRecordedDecl(codelines, states, i)
                    /\ InRecognisedBlock(codelines, states, i)) =>
                    LET f == matchFieldDecl(codelines[i])
                        key == BlockInstance(codelines, states, i)
                                  \o <<".">> \o f.fieldId
                    IN  minified.lines[i] =
                            f.typeId \o <<" ">> \o ShortName(table[key]) \o <<";">>
              /\ IsOutsideLine(codelines, states, i) =>
                    minified.lines[i] = RenameRefs(codelines[i], table, 0)

\* C9: a uniform block whose type identifier is MaterialParams is never
\* minified: its field declarations are the same in the output as in the
\* input, and in a text whose blocks are all MaterialParams blocks so is
\* every other line, the references to its fields among them.
C9_MaterialParamsUntouched ==
    minified.status = "done" =>
        LET codelines == splitLines(source)
            states == scanStates(codelines)
            MP == <<"M","a","t","e","r","i","a","l","P","a","r","a","m","s">>
            allMP == \A i \in 1..Len(codelines) :
                        states[i].state = "STRUCT_DEFN" =>
                            /\ states[i].currentStruct = MP
                            /\ InRecognisedBlock(codelines, states, i)
        IN  \A i \in 1..Len(codelines) :
              /\ (IsRecordedDecl(codelines, states, i)
                    /\ InRecognisedBlock(codelines, states, i)
                    /\ states[i].currentStruct = MP) =>
                    minified.lines[i] = codelines[i]
              /\ allMP => minified.lines[i] = codelines[i]

\* C10: for a uniform block with N recorded fields of pairwise distinct
\* names, the scan pass assigns N pairwise distinct short names within the
\* struct instance: the table is injective on the fields of the block.
C10_ShortNamesDistinct ==
    \A b \in 1..Len(fed) :
        LET I == fed[b].structName
            fields == fed[b].fields
            N == Len(fields)
            keys == [k \in 1..N |-> I \o <<".">> \o fields[k]]
        IN  Cardinality({fields[k] : k \in 1..N}) = N =>
            /\ \A k \in 1..N :
                  /\ keys[k] \in DOMAIN scan.fieldMapping
                  /\ SubSeq(scan.fieldMapping[keys[k]], 1, Len(I) + 1)
                        = I \o <<".">>
            /\ Cardinality({scan.fieldMapping[keys[k]] : k \in 1..N}) = N

C10_Witness ==
    /\ Len(fed) = 2
    /\ Len(fed[1].fields) = 52
    /\ Len(fed[2].fields) = 1
    /\ fed[1].structName # fed[2].structName
    /\ scan.state = "OUTSIDE"
    /\ Cardinality(DOMAIN scan.fieldMapping) = 53

\* n times the letter c
RECURSIVE Repeat(_, _)
Repeat(c, n) == IF n = 0 THEN <<>> ELSE <<c>> \o Repeat(c, n - 1)

\* the short name the k-th recorded field of a struct gets:
\* a, b, .., z, az, bz, .., zz, azz, ..
GeneratedName(k) ==
    <<Lower[((k - 1) % 26) + 1]>> \o Repeat("z", (k - 1) \div 26)

\* the short name the table holds for the k-th field of closed block b
AssignedName(b, k) ==
    ShortName(MapGet(scan.fieldMapping,
                     fed[b].structName \o <<".">> \o fed[b].fields[k]))

\* C11 as stated: the k-th recorded field of a struct gets the k-th
\* lowercase letter for k up to 26, the 27th gets aa and the 28th gets bb,
\* and the sequence restarts at a for each struct.
C11_NamesAThenAaBb ==
    \A b \in 1..Len(fed) : \A k \in 1..Len(fed[b].fields) :
        /\ k <= 26 => AssignedName(b, k) = <<Lower[k]>>
        /\ k = 27 => AssignedName(b, k) = <<"a", "a">>
        /\ k = 28 => AssignedName(b, k) = <<"b", "b">>

\* C11 amended: short names are assigned in first-seen field order: the
\* k-th recorded field of a struct gets the k-th lowercase letter for k up
\* to 26; from the 27th on the first letter cycles through a..z again and a
\* z is appended for every completed cycle (az, bz, .., zz, azz, ..); the
\* sequence restarts at a for each struct.
C11_NamesAThenAzBz ==
    \A b \in 1..Len(fed) : \A k \in 1..Len(fed[b].fields) :
        /\ AssignedName(b, k) = GeneratedName(k)
        /\ k <= 26 => AssignedName(b, k) = <<Lower[k]>>
        /\ k = 27 => AssignedName(b, k) = <<"a", "z">>
        /\ k = 28 => AssignedName(b, k) = <<"b", "z">>

C11_Witness ==
    /\ Len(fed) = 2
    /\ Len(fed[1].fields) = 28
    /\ Len(fed[2].fields) = 2
    /\ AssignedName(1, 28) = <<"b", "z">>
    /\ AssignedName(2, 1) = <<"a">>

\* the type identifiers of the uniform blocks the scan pass enters, in order
RECURSIVE BlockTypesFrom(_, _, _)
BlockTypesFrom(codelines, states, i) ==
    IF i > Len(codelines) THEN <<>>
    ELSE (IF states[i].state = "OUTSIDE" /\ matchUniform(codelines[i]).ok
          THEN <<matchUniform(codelines[i]).typeId>> ELSE <<>>)
         \o BlockTypesFrom(codelines, states, i + 1)

BlockTypes(src) ==
    LET codelines == splitLines(src)
    IN  BlockTypesFrom(codelines, scanStates(codelines), 1)

\* no two uniform blocks of src have the same type identifier
DistinctBlockTypes(src) ==
    LET types == BlockTypes(src)
    IN  \A i, j \in 1..Len(types) : types[i] = types[j] => i = j

\* minifyStructFields(text) is text, whatever the order of the table
MinifyFixes(text) ==
    \A order \in Orders(minifyKeys(text)) :
        minifyStructFields(text, order) = text

RECURSIVE TextLinesFrom(_, _, _)
TextLinesFrom(s, i, cur) ==
    IF i > Len(s) THEN (IF cur = <<>> THEN <<>> ELSE <<cur>>)
    ELSE IF s[i] = NL THEN <<cur>> \o TextLinesFrom(s, i + 1, <<>>)
    ELSE TextLinesFrom(s, i + 1, Append(cur, s[i]))

TextLines(s) == TextLinesFrom(s, 1, <<>>)

\* the lines of a sequence of lines that are not empty
NonEmpty(lines) == SelectSeq(lines, LAMBDA l : l # <<>>)

\* C13: for any source in which no line opens a uniform block, the output
\* of minifyStructFields consists of exactly the input lines that are not
\* blank (the lines that hold at least one character), in order and
\* unmodified, each followed by one newline.
C13_NoBlockNoOp ==
    (minified.status = "done" /\ BlockTypes(source) = <<>>) =>
        /\ minified.lines = NonEmpty(TextLines(source))
        /\ minified.text = joinLines(NonEmpty(TextLines(source)), 1)

C13_Witness ==
    /\ minified.status = "done"
    /\ BlockTypes(source) = <<>>
    /\ Len(TextLines(source)) = 3
    /\ Len(minified.lines) = 2
    /\ source[Len(source)] # NL
    /\ minified.text # source

\* the elements of a sequence
Range(seq) == {seq[i] : i \in 1..Len(seq)}

\* C14: for both the size and the performance profile, the registered pass
\* list starts with kill-wrapping then dead-branch-elimination, and the
\* merge-return pass is registered, as the third pass and before the fixed
\* tail of the profile, if and only if the shader model is not GL_CORE_41.
C14_MergeReturnByShaderModel ==
    \A c \in Callers :
        (pc[c] \in {"post", "done"} /\ local[c].optimizer # "unset") =>
            LET passes == local[c].passes
                tail == IF mOptimization = "SIZE" THEN SizeTail
                        ELSE PerformanceTail
                merge == call[c].shaderModel # "GL_CORE_41"
            IN  /\ mOptimization \in {"SIZE", "PERFORMANCE"}
                /\ passes[1] = "WrapOpKill"
                /\ passes[2] = "DeadBranchElim"
                /\ ("MergeReturn" \in Range(passes)) <=> merge
                /\ merge => /\ passes[3] = "MergeReturn"
                            /\ SubSeq(passes, 4, Len(passes)) = tail
                /\ ~merge => SubSeq(passes, 3, Len(passes)) = tail

C14_Witness ==
    /\ pc["t1"] = "done"
    /\ mOptimization = "SIZE"
    /\ call["t1"].shaderModel = "GL_CORE_41"
    /\ Len(local["t1"].passes) = Len(SizeTail) + 2
    /\ "MergeReturn" \notin Range(local["t1"].passes)

\* C15: in every branch, whenever the secondary-language output is
\* requested, SpvToMsl is invoked only on an IR blob that was produced
\* earlier in the same call (the unoptimized IR under NONE and PREPROCESSOR,
\* the optimized IR under SIZE and PERFORMANCE), never on a null, unwritten
\* or stale blob.
C15_MslFromIrOfTheCall ==
    \A c \in Callers :
        /\ LogAt(c, {"deref null mSpirvOutput"}) = {}
        /\ \A m \in LogAt(c, {"SpvToMsl"}) :
            LET blob == log[c][m].blob
            IN  /\ blob.kind = "ir"
                /\ \E g \in LogAt(c, {"GlslangToSpv"}) : g < m
                /\ mOptimization \in {"NONE", "PREPROCESSOR"} =>
                      blob.opt = "none"
                /\ mOptimization \in {"SIZE", "PERFORMANCE"} =>
                      blob.opt = mOptimization

\* the call of c returned on the fast exit
FastExited(c) == pc[c] = "done" /\ local[c].parse = "unset"

FullLevel == mOptimization \in {"SIZE", "PERFORMANCE"}

\* under NONE and PREPROCESSOR the IR a call wrote to its output is the
\* direct lowering, and no optimizer was created or run
DirectLowering(c) ==
    (~FullLevel /\ pc[c] \in {"post", "done"}) =>
        /\ LogAt(c, {"createOptimizer", "optimizer.Run", "remap"}) = {}
        /\ local[c].passes = <<>>
        /\ LogAt(c, {"write outputSpirv"}) # {} =>
              /\ outputSpirv[c].kind = "ir"
              /\ outputSpirv[c].opt = "none"
              /\ ~outputSpirv[c].dce

\* C17 as stated: the optimizer and the remap step are invoked if and only
\* if the level is SIZE or PERFORMANCE and the front-end succeeded; under
\* NONE and PREPROCESSOR any IR written to the output is the direct lowering
\* with no optimizer pass applied.
C17_OptimizerAndRemapIffFullLevel ==
    \A c \in Callers :
        /\ \A op \in {"optimizer.Run", "remap"} :
            /\ LogAt(c, {op}) # {} => (FullLevel /\ local[c].link = "ok")
            /\ (FullLevel /\ PastFrontEnd(c)) => LogAt(c, {op}) # {}
        /\ DirectLowering(c)

\* C17 amended: the optimizer is invoked if and only if the level is SIZE
\* or PERFORMANCE and the front-end succeeded; the remap step is invoked if
\* and only if in addition the optimizer run succeeded; under NONE and
\* PREPROCESSOR any IR written to the output is the direct lowering with no
\* optimizer pass applied.
C17_OptimizerIffFullLevel ==
    \A c \in Callers :
        /\ LogAt(c, {"optimizer.Run"}) # {} =>
              (FullLevel /\ local[c].link = "ok")
        /\ (FullLevel /\ PastFrontEnd(c)) => LogAt(c, {"optimizer.Run"}) # {}
        /\ LogAt(c, {"remap"}) # {} =>
              (FullLevel /\ local[c].link = "ok" /\ local[c].optimizer = "ok")
        /\ (FullLevel /\ PastFrontEnd(c) /\ local[c].optimizer = "ok") =>
              LogAt(c, {"remap"}) # {}
        /\ DirectLowering(c)

C17_Witness ==
    /\ pc["t1"] = "done"
    /\ mOptimization = "SIZE"
    /\ local["t1"].optimizer = "failed"
    /\ LogAt("t1", {"optimizer.Run"}) # {}
    /\ LogAt("t1", {"remap"}) = {}
    /\ LogAt("t1", {"write outputSpirv"}) # {}

\* TypeIdentifier SPACE FieldIdentifier ArraySize ;   [ok, typeId, fieldId,
\* suffix]: a field declaration that carries an array size
matchArrayDecl(codeline) ==
    LET no == [ok |-> FALSE, typeId |-> <<>>, fieldId |-> <<>>, suffix |-> <<>>]
        c1 == consumeIdentifier(codeline, 0)
        c2 == consumeIdentifier(codeline, c1.index + 1)
        e == consumeArraySize(codeline, c2.index)
    IN  IF ~c1.ok \/ Peek(codeline, c1.index) # " " THEN no
        ELSE IF ~c2.ok \/ e = c2.index THEN no
        ELSE IF Peek(codeline, e) # ";" \/ e + 1 # Len(codeline) THEN no
        ELSE [ok |-> TRUE, typeId |-> c1.id, fieldId |-> c2.id,
              suffix |-> SubSeq(codeline, c2.index + 1, e)]

\* C18: inside the body of a uniform block the scan pass recognises, a
\* field declaration that carries an array size is recorded like any other
\* field, gets a short name, and is rewritten with its type and its array
\* size as they were: Type Short[N];
C18_ArrayFieldsMinified ==
    minified.status = "done" =>
        LET codelines == splitLines(source)
            states == scanStates(codelines)
            table == scanPass(codelines).fieldMapping
        IN  \A i \in 1..Len(codelines) :
              (InRecognisedBlock(codelines, states, i)
                  /\ matchArrayDecl(codelines[i]).ok) =>
                  LET f == matchArrayDecl(codelines[i])
                      key == BlockInstance(codelines, states, i)
                                \o <<".">> \o f.fieldId
                  IN  /\ key \in DOMAIN table
                      /\ minified.lines[i] =
                            f.typeId \o <<" ">> \o ShortName(MapGet(table, key))
                                \o f.suffix \o <<";">>

\* codeline i follows a `uniform Identifier` line and is not exactly "{"
IsFailedOpen(codelines, states, i) ==
    /\ states[i].state = "STRUCT_OPEN"
    /\ ~(codelines[i][1] = "{" /\ Len(codelines[i]) = 1)

\* the state of the scan loop after codeline i
StateAfter(codelines, states, i) == scanLine(states[i], codelines[i]).state

\* C19 (as stated): a line that follows a `uniform Identifier` line and is
\* not exactly "{" is handled as an OUTSIDE line: in the scan pass it leaves
\* the state an OUTSIDE line leaves (STRUCT_OPEN when it is itself a
\* `uniform Identifier` line), and in the rewrite pass it is written as an
\* OUTSIDE line is, with the field references replaced.
C19_FailedOpenHandledAsOutside ==
    minified.status = "done" =>
        LET codelines == splitLines(source)
            states == scanStates(codelines)
            scanned == scanPass(codelines)
        IN  \A i \in 1..Len(codelines) :
              IsFailedOpen(codelines, states, i) =>
                  LET outside == [states[i] EXCEPT !.state = "OUTSIDE"]
                  IN  /\ StateAfter(codelines, states, i) =
                            scanLine(outside, codelines[i]).state
                      /\ \E order \in Orders(minifyKeys(source)) :
                            minified.lines[i] =
                                rewriteLine([scanned EXCEPT !.state = "OUTSIDE"],
                                            codelines[i], order).newline

\* C19 (amended): a line that follows a `uniform Identifier` line and is
\* not exactly "{" is consumed by that turn of the loop: the state after it
\* is OUTSIDE whatever the line holds, so it opens no struct, and the
\* rewrite pass writes it unchanged, with no field reference replaced.
C19_FailedOpenConsumed ==
    minified.status = "done" =>
        LET codelines == splitLines(source)
            states == scanStates(codelines)
        IN  \A i \in 1..Len(codelines) :
              IsFailedOpen(codelines, states, i) =>
                  /\ StateAfter(codelines, states, i) = "OUTSIDE"
                  /\ i < Len(codelines) => states[i + 1].state = "OUTSIDE"
                  /\ minified.lines[i] = codelines[i]

\* a recognised block I with field b, then `uniform T` followed by a line
\* that refers to I.b: the table holds I.b and the line is written unchanged
C19_Witness ==
    /\ minified.status = "done"
    /\ LET codelines == splitLines(source)
           states == scanStates(codelines)
       IN  \E i \in 1..Len(codelines) :
              /\ IsFailedOpen(codelines, states, i)
              /\ codelines[i] = LineUseI
              /\ \E k \in DOMAIN scanPass(codelines).fieldMapping :
                    find(codelines[i], k, 0) # npos
              /\ minified.lines[i] = LineUseI

-----------------------------------------------------------------------------
(* Claims about shrinkString (TextSpec)                                    *)

\* a line without the spaces and tabs it begins with
StripLeading(line) ==
    LET fn == findFirstNotOfBlank(line, 0)
    IN  IF fn = npos THEN <<>> ELSE SubSeq(line, fn + 1, Len(line))

\* the lines of a text, each without its leading spaces and tabs
StrippedLines(s) ==
    LET lines == TextLines(s)
    IN  [i \in 1..Len(lines) |-> StripLeading(lines[i])]

\* C20: for every input that ends with a newline, the output of
\* shrinkString holds no empty line and no line that begins with a space or
\* a tab, and is otherwise the lines of the input, in order, with only the
\* leading spaces and tabs removed.
C20_ShrinkCompacts ==
    (minified.status = "shrunk" /\ source # <<>> /\ source[Len(source)] = NL) =>
        LET out == TextLines(minified.text)
        IN  /\ \A i \in 1..Len(out) :
                  out[i] # <<>> /\ out[i][1] \notin {" ", "\t"}
            /\ out = NonEmpty(StrippedLines(source))

-----------------------------------------------------------------------------
(* Claims about the remapping table in the rewrite pass (MinSpec)          *)

\* the state of the rewrite loop before each codeline; the state does not
\* depend on the order the table is iterated in
RECURSIVE rewriteStatesFrom(_, _, _, _)
rewriteStatesFrom(st, codelines, i, acc) ==
    IF i > Len(codelines) THEN acc
    ELSE rewriteStatesFrom(rewriteLine(st, codelines[i], <<>>).st, codelines,
                           i + 1, Append(acc, st))

rewriteStates(codelines) ==
    rewriteStatesFrom([scanPass(codelines) EXCEPT !.state = "OUTSIDE"],
                      codelines, 1, <<>>)

\* codeline i is a field declaration the rewrite pass rewrites
IsRewrittenDecl(codelines, rstates, i) ==
    /\ rstates[i].state = "STRUCT_DEFN"
    /\ ~matchClose(codelines[i]).found
    /\ matchFieldDecl(codelines[i]).ok

\* the key the rewrite pass looks up for the declaration in codeline i
RewriteKey(codelines, rstates, i) ==
    MapGet(rstates[i].currentStructToName, rstates[i].currentStruct)
        \o <<".">> \o matchFieldDecl(codelines[i]).fieldId

\* C21: the remapping table is built by the scan pass only and is read-only
\* in the rewrite pass: the table after the rewrite pass is the table the
\* scan pass built, every field declaration the rewrite pass rewrites has
\* an entry in it, and no declaration is rewritten to an empty field name.
C21_TableReadOnlyInRewrite ==
    minified.status = "done" =>
        LET codelines == splitLines(source)
            scanned == scanPass(codelines)
            rstates == rewriteStates(codelines)
        IN  /\ rewritePass(codelines, scanned, <<>>).st.fieldMapping =
                  scanned.fieldMapping
            /\ \A i \in 1..Len(codelines) :
                  IsRewrittenDecl(codelines, rstates, i) =>
                      /\ RewriteKey(codelines, rstates, i)
                            \in DOMAIN scanned.fieldMapping
                      /\ minified.lines[i] #
                            matchFieldDecl(codelines[i]).typeId \o <<" ", ";">>

-----------------------------------------------------------------------------
(* Claims about the NONE branch of process (Spec)                          *)

NoneDiagnostic == "GLSL post-processor invoked with optimization level NONE"

\* the call of c left process on the fast exit, by its return or by the
\* write through a null outputGlsl
LeftOnFastExit(c) ==
    pc[c] \in {"done", "crashed"} /\ local[c].parse = "unset"

\* C22: with level NONE a call takes the fast exit exactly when no IR
\* output pointer is supplied; so in the NONE branch after the front-end
\* mSpirvOutput is not null, and the diagnostic of that branch is emitted
\* in no reachable state, under any level.
C22_NoneDiagnosticNeverEmitted ==
    \A c \in Callers :
        /\ LogAt(c, {NoneDiagnostic}) = {}
        /\ (mOptimization = "NONE" /\ pc[c] # "idle") =>
              /\ LeftOnFastExit(c) <=> ~call[c].spirv
              /\ pc[c] \in {"parse", "link", "switch", "post"} =>
                    mSpirvOutput # Null

\* a call under NONE with only the IR output passed the NONE branch and
\* wrote the IR
C22_Witness ==
    /\ mOptimization = "NONE"
    /\ pc["t1"] = "post"
    /\ call["t1"].spirv /\ ~call["t1"].glsl /\ ~call["t1"].msl
    /\ LogAt("t1", {"write outputSpirv"}) # {}
    /\ mSpirvOutput = "t1"

-----------------------------------------------------------------------------
(* Claims about the reads of shrinkString (TextSpec)                       *)

\* C23: shrinkString terminates and reads no character at an index greater
\* than the length of its input, for every input, the empty string and a
\* string whose last character is not a newline included: every call
\* returns, and none reads past the end.
C23_ShrinkStaysInBounds ==
    minified.status \in {"shrunk", "aborted"} =>
        /\ ~shrinkReadsPastEnd(source)
        /\ minified.status = "shrunk"

-----------------------------------------------------------------------------
(* Claims about interleaved process calls (ConcSpec)                       *)

\* a step of the call of c leaves the output objects of the other callers
\* as they are
WritesOwnOutputs(c) ==
    \A d \in Callers \ {c} :
        /\ outputGlsl'[d] = outputGlsl[d]
        /\ outputSpirv'[d] = outputSpirv[d]
        /\ outputMsl'[d] = outputMsl[d]

\* the stage and the language versions the call of c used so far are those
\* of its own request
UsesOwnConfig(c) ==
    /\ local[c].shLang \in {"unset", ShLang(call[c].shaderType)}
    /\ local[c].langVersion \in
          {NoVersion, glslangVersionFromShaderModel(call[c].shaderModel)}
    /\ local[c].reLangVersion \in
          {NoVersion, glslangVersionFromShaderModel(call[c].shaderModel)}

\* C24: when two process calls on the same instance are interleaved, every
\* step of a call writes only to the output objects whose pointers were
\* passed to that call, and the call uses the shader stage and the language
\* version of its own request.
C24_InterleavedCallsIsolated ==
    [][\A c \in Callers :
          pc'[c] # pc[c] => (WritesOwnOutputs(c) /\ UsesOwnConfig(c)')]_vars

=============================================================================
